---- MODULE Spec2Model ----
(***************************************************************************)
(* rs-fzf: the bridge between a ripgrep child process and its consumer.    *)
(*                                                                         *)
(* run_ripgrep (src/src/ripgrep/ripgrep.rs) builds the argument list of    *)
(* `rg --json`, spawns the child, reads its standard output line by line,  *)
(* sends one SearchResult::Match per decoded match record over a           *)
(* crossbeam channel, and reports how the child ended.                     *)
(* MyApp (src/src/gui/gui.rs) starts one run_ripgrep thread per search and *)
(* takes at most one event from the search's channel in every frame.       *)
(* Worker variables are indexed by the search the thread belongs to.       *)
(*                                                                         *)
(* Representation.  A Rust String is a sequence of characters, a character *)
(* a one-character TLA+ string ("U+FFFD" and "U+00E9" name the two         *)
(* non-ASCII characters used).  Vec<u8> is a sequence of integers 0..255.  *)
(* Option<T> is [some |-> FALSE] or [some |-> TRUE, v |-> t].              *)
(* serde_json::from_str is library code: a stdout line is represented by   *)
(* the value it decodes to (an RgJsonItem, or a parse error).              *)
(***************************************************************************)
EXTENDS Integers, Sequences, FiniteSets, TLC

(***************************************************************************)
(* Bounds of the model.                                                    *)
(***************************************************************************)
\* longest stdout script of the child, in lines
MaxLines == 3
\* longest glob input enumerated exhaustively, in characters
MaxGlobLen == 3
\* largest line number a match record carries
MaxLineNumber == 2
\* longest byte or text payload of a match record enumerated exhaustively
MaxTextLen == 3

None == [some |-> FALSE]
Some(x) == [some |-> TRUE, v |-> x]

(***************************************************************************)
(* Strings.                                                                *)
(***************************************************************************)
\* char::is_whitespace, on the characters the model uses
Whitespace == {" ", "\t", "\n", "\r"}

RECURSIVE TrimEnd_KeepLineEnd(_)
\* mutant of TrimEnd: trims blanks but not line endings
TrimEnd_KeepLineEnd(s) ==
    IF s # <<>> /\ s[Len(s)] \in {" ", "\t"}
    THEN TrimEnd_KeepLineEnd(SubSeq(s, 1, Len(s) - 1))
    ELSE s

RECURSIVE TrimEnd(_)
\* str::trim_end: drops the trailing whitespace characters
TrimEnd(s) ==
    IF s # <<>> /\ s[Len(s)] \in Whitespace
    THEN TrimEnd(SubSeq(s, 1, Len(s) - 1))
    ELSE s

RECURSIVE TrimStart(_)
\* str::trim_start: drops the leading whitespace characters
TrimStart(s) ==
    IF s # <<>> /\ s[1] \in Whitespace
    THEN TrimStart(SubSeq(s, 2, Len(s)))
    ELSE s

\* str::trim
Trim(s) == TrimEnd(TrimStart(s))

(***************************************************************************)
(* The argument list of rg (run_ripgrep, lines 148-174).                   *)
(***************************************************************************)
JsonFlag == <<"-", "-", "j", "s", "o", "n">>
CaseFlag == <<"-", "i">>
HiddenFlag == <<"-", "-", "h", "i", "d", "d", "e", "n">>
SymlinkFlag == <<"-", "L">>
GlobFlag == <<"-", "g">>

\* mutant of IsGlobDelim: the comma alone separates globs
IsGlobDelim_CommaOnly(c) == c = ","

\* the closure of globs.split(|c| c == ',' || c == ';')
IsGlobDelim(c) == c = "," \/ c = ";"

RECURSIVE Split(_)
\* str::split on IsGlobDelim: the pieces between delimiters, empty pieces kept
Split(s) ==
    IF \E i \in 1..Len(s) : IsGlobDelim(s[i])
    THEN LET i == CHOOSE k \in 1..Len(s) :
                      /\ IsGlobDelim(s[k])
                      /\ \A j \in 1..(k - 1) : ~IsGlobDelim(s[j])
         IN  <<SubSeq(s, 1, i - 1)>> \o Split(SubSeq(s, i + 1, Len(s)))
    ELSE <<s>>

RECURSIVE PushGlobs(_, _)
\* the body of the `for glob in globs.split(..)` loop, over the pieces in order
PushGlobs(args, pieces) ==
    IF pieces = <<>> THEN args
    ELSE LET trimmed_glob == Trim(Head(pieces))
         IN  PushGlobs(IF trimmed_glob # <<>>
                       THEN args \o <<GlobFlag, trimmed_glob>>
                       ELSE args,
                       Tail(pieces))

\* mutant of BuildArgs: --hidden is pushed before -i
BuildArgs_HiddenFirst(query, path, options) ==
    LET a0 == <<JsonFlag, query, path>>
        a1 == IF options.search_hidden THEN Append(a0, HiddenFlag) ELSE a0
        a2 == IF options.case_insensitive THEN Append(a1, CaseFlag) ELSE a1
        a3 == IF options.follow_symlinks THEN Append(a2, SymlinkFlag) ELSE a2
    IN  IF options.globs.some THEN PushGlobs(a3, Split(options.globs.v)) ELSE a3

\* cmd_args as run_ripgrep builds it
BuildArgs(query, path, options) ==
    LET a0 == <<JsonFlag, query, path>>
        a1 == IF options.case_insensitive THEN Append(a0, CaseFlag) ELSE a0
        a2 == IF options.search_hidden THEN Append(a1, HiddenFlag) ELSE a1
        a3 == IF options.follow_symlinks THEN Append(a2, SymlinkFlag) ELSE a2
    IN  IF options.globs.some THEN PushGlobs(a3, Split(options.globs.v)) ELSE a3

(***************************************************************************)
(* Decoding a match record (lines 44-51 and 190-197).                      *)
(***************************************************************************)
\* the characters of the one-byte code points the model uses
AsciiChar(b) ==
    CASE b = 9 -> "\t"
      [] b = 10 -> "\n"
      [] b = 13 -> "\r"
      [] b = 32 -> " "
      [] b = 97 -> "a"
      [] b = 98 -> "b"

RECURSIVE FromUtf8Lossy(_)
\* String::from_utf8_lossy on the bytes the model uses: one-byte code points,
\* the two-byte code point U+00E9 (0xC3 0xA9), and invalid bytes (a lone lead
\* byte 0xC3, a lone continuation byte 0xA9, 0xFF), each invalid byte giving
\* one U+FFFD
FromUtf8Lossy(b) ==
    IF b = <<>> THEN <<>>
    ELSE IF b[1] < 128 THEN <<AsciiChar(b[1])>> \o FromUtf8Lossy(Tail(b))
    ELSE IF b[1] = 195 /\ Len(b) >= 2 /\ b[2] = 169
         THEN <<"U+00E9">> \o FromUtf8Lossy(SubSeq(b, 3, Len(b)))
    ELSE <<"U+FFFD">> \o FromUtf8Lossy(Tail(b))

\* TextOrBytes::to_string_lossy
ToStringLossy(tob) ==
    IF "text" \in DOMAIN tob THEN tob.text ELSE FromUtf8Lossy(tob.bytes)

\* m.line_number.unwrap_or(0)
UnwrapOr0(opt) == IF opt.some THEN opt.v ELSE 0

\* the GuiMatch built from a decoded RgJsonItem::Match
MakeGuiMatch(m) ==
    [path |-> ToStringLossy(m.path),
     line_number |-> UnwrapOr0(m.line_number),
     line_text |-> TrimEnd(ToStringLossy(m.lines))]

(***************************************************************************)
(* State.  Every search MyApp starts runs run_ripgrep on a thread of its   *)
(* own with a channel of its own; searches, their workers and their        *)
(* channels are numbered 1, 2, ... in the order they are started.          *)
(***************************************************************************)
\* most searches started in one run of the model
MaxSearches == 2
\* chunks of standard error the pipe holds before a write to it blocks
PipeCapacity == 1

Workers == 1..MaxSearches

VARIABLES
    query,      \* [w] run_ripgrep's parameter `query`
    path,       \* [w] run_ripgrep's parameter `path`
    options,    \* [w] run_ripgrep's parameter `options` (RgOptions)
    child,      \* [w] what the rg child process does: spawn outcome, the results
                \* of reading its stdout line by line, how waiting for it ends
    cmd_args,   \* [w] the argument list handed to Command::args
    pc,         \* [w] where the worker is: "none" (no such thread yet), "start",
                \* "reading", "waiting", "returned"
    pos,        \* [w] number of items taken from reader.lines()
    err_written, \* [w] chunks the child has written to its stderr pipe
    chan,       \* [c] the events buffered in the unbounded channel
    rx_open,    \* [c] whether the Receiver is alive
    sends,      \* [w] every call of sender.send so far: the event and whether it was Ok
    received,   \* [c] the events the consumer has taken from the channel
    results,                \* MyApp::results
    error_message,          \* MyApp::error_message
    search_status,          \* MyApp::search_status
    search_result_receiver, \* MyApp::search_result_receiver: None, or Some(c)
    repaint,    \* whether the last update called ctx.request_repaint()
    click,      \* whether Search was clicked in the last update
    polled      \* number of rx.try_recv() calls of the last update

worker_vars == <<query, path, options, child, cmd_args, pc, pos, err_written,
                 chan, rx_open, sends, received>>
app_vars == <<results, error_message, search_status, search_result_receiver,
              repaint, click, polled>>
vars == <<worker_vars, app_vars>>

(***************************************************************************)
(* SearchResult values.  An error message is a record of the format        *)
(* string's literal text and the value interpolated into it, if any.       *)
(***************************************************************************)
MatchEvent(gui_match) == [type |-> "Match", m |-> gui_match]
ErrorEvent(msg) == [type |-> "Error", msg |-> msg]
DoneEvent == [type |-> "Done"]

IsTerminal(ev) == ev.type \in {"Error", "Done"}

\* mutant of ChanOf: one channel, made once, serves every search
ChanOf_Shared(w) == 1

\* the channel worker w sends on: the one made for its search
\* (unbounded() in the Search handler, tx moved into the thread)
ChanOf(w) == w

\* crossbeam_channel::Sender::send on an unbounded channel: enqueues, or
\* fails when every receiver is gone
Send(w, ev) ==
    /\ chan' = [chan EXCEPT ![ChanOf(w)] =
                   IF rx_open[ChanOf(w)] THEN Append(@, ev) ELSE @]
    /\ sends' = [sends EXCEPT ![w] =
                    Append(@, [ev |-> ev, ok |-> rx_open[ChanOf(w)]])]

(***************************************************************************)
(* The children and inputs enumerated.                                     *)
(***************************************************************************)
Str_TODO == <<"T", "O", "D", "O">>
Str_TmpProj == <<"/", "t", "m", "p", "/", "p", "r", "o", "j">>
Str_Dot == <<".">>

\* TextOrBytes::Text(s) and TextOrBytes::Bytes(b)
Text(s) == [text |-> s]
Bytes(b) == [bytes |-> b]

\* the values serde_json::from_str::<RgJsonItem> gives for a line
MatchItem(p, l, n) ==
    [type |-> "match", path |-> p, lines |-> l, line_number |-> n]
OtherItem(t) == [type |-> t]
ParseError == [type |-> "parse_error"]

\* the items of reader.lines(): Ok(line), held as what the line decodes to, or Err(e)
OkLine(item) == [io |-> "Ok", item |-> item]
ErrLine == [io |-> "Err", e |-> "stream did not contain valid UTF-8"]

Match1 == MatchItem(Text(<<"a">>), Text(<<"a", "\n">>), Some(1))
Match2 == MatchItem(Bytes(<<98>>), Bytes(<<98, 255, 13, 10>>), None)

\* the lines a stdout script of the general specification is made of
ScriptLines ==
    {OkLine(Match1), OkLine(Match2), OkLine(OtherItem("begin")),
     OkLine(ParseError), ErrLine}

\* all sequences over S of length at most n
SeqsUpTo(S, n) == UNION {[1..k -> S] : k \in 0..n}

\* how child.wait_with_output() ends: Err(e), or Ok(output) with the exit
\* status (code None: ended by a signal) and the captured stderr bytes
WaitErr == [wait |-> "Err", e |-> "wait failed"]
WaitOk(code, stderr) == [wait |-> "Ok", code |-> code, stderr |-> stderr]

Stderrs == {<<>>, <<32, 10>>, <<98, 10>>}
ExitCodes == {Some(0), Some(2), None}
Exits == {WaitErr} \cup {WaitOk(c, e) : c \in ExitCodes, e \in Stderrs}

\* Command::spawn failed: e.kind() is NotFound or another kind
SpawnFailures ==
    {[spawn |-> k] : k \in {"NotFound", "PermissionDenied"}}

\* Command::spawn succeeded.  stdout(Stdio::piped()) makes child.stdout Some.
Spawned(stdout, exit) ==
    [spawn |-> "Ok", stdout_captured |-> TRUE, stdout |-> stdout, exit |-> exit]

Children ==
    SpawnFailures \cup
    {Spawned(out, ex) : out \in SeqsUpTo(ScriptLines, MaxLines), ex \in Exits}

\* a few children that together take every path of run_ripgrep
FewChildren ==
    {[spawn |-> "NotFound"],
     Spawned(<<OkLine(Match1), OkLine(OtherItem("summary"))>>, WaitOk(Some(0), <<>>)),
     Spawned(<<OkLine(ParseError), ErrLine>>, WaitOk(Some(2), <<98, 10>>))}

DefaultOptions ==
    [case_insensitive |-> FALSE, search_hidden |-> FALSE,
     follow_symlinks |-> FALSE, globs |-> None]

\* no child: the search has not been started
NoChild == [spawn |-> "none"]

\* a spawned child that writes n chunks to stderr before it writes and
\* closes stdout
Noisy(stdout, exit, n) ==
    [spawn |-> "Ok", stdout_captured |-> TRUE, stdout |-> stdout, exit |-> exit,
     err_chunks |-> n]

\* the chunks of stderr a child writes before its stdout (0 unless stated)
ErrChunks(c) == IF "err_chunks" \in DOMAIN c THEN c.err_chunks ELSE 0

\* the value x for worker 1 and d for the others
One(x, d) == [w \in Workers |-> IF w = 1 THEN x ELSE d]

\* MyApp::default
AppDefault ==
    /\ results = <<>>
    /\ error_message = None
    /\ search_status = [text |-> "Ready"]
    /\ search_result_receiver = None
    /\ repaint = FALSE
    /\ click = FALSE
    /\ polled = 0

\* the state when run_ripgrep is entered on its own thread with a fresh
\* channel, by a caller that holds the receiver
Entered ==
    /\ cmd_args = [w \in Workers |-> <<>>]
    /\ pc = One("start", "none")
    /\ pos = [w \in Workers |-> 0]
    /\ err_written = [w \in Workers |-> 0]
    /\ chan = [c \in Workers |-> <<>>]
    /\ rx_open = One(TRUE, FALSE)
    /\ sends = [w \in Workers |-> <<>>]
    /\ received = [c \in Workers |-> <<>>]
    /\ AppDefault

Init ==
    /\ query = One(Str_TODO, <<>>)
    /\ path = One(Str_TmpProj, <<>>)
    /\ options = One(DefaultOptions, DefaultOptions)
    /\ child \in {One(c, NoChild) : c \in Children}
    /\ Entered

\* the invocations enumerated for the argument list: every option
\* combination, every glob text over GlobAlphabet up to MaxGlobLen and the
\* samples, with a few children
Str_DashI == <<"-", "i">>
Str_GlobSample ==
    <<"*", ".", "r", "s", ",", " ", ";", " ", "*", ".", "m", "d">>
Str_GlobHint == <<"!", "*", ".", "l", "o", "g">>
GlobAlphabet == {"a", ",", ";", " "}
GlobInputs ==
    {None} \cup
    {Some(g) : g \in SeqsUpTo(GlobAlphabet, MaxGlobLen)
                     \cup {Str_GlobSample, Str_GlobHint}}

InitArgs ==
    /\ query \in {One(q, <<>>) : q \in {Str_TODO, Str_DashI}}
    /\ path \in {One(p, <<>>) : p \in {Str_TmpProj, Str_Dot}}
    /\ options \in {One(o, DefaultOptions) :
                       o \in [case_insensitive : BOOLEAN, search_hidden : BOOLEAN,
                              follow_symlinks : BOOLEAN, globs : GlobInputs]}
    /\ child \in {One(c, NoChild) : c \in FewChildren}
    /\ Entered

\* the invocations enumerated for decoding: a child whose one stdout line is
\* a match record, over every text and byte payload up to MaxTextLen.  Line
\* numbers of rg are 1-based.
TextAlphabet == {"a", " ", "\n", "\r"}
ByteAlphabet == {97, 10, 255, 195, 169}
TextValues ==
    {Text(t) : t \in SeqsUpTo(TextAlphabet, MaxTextLen)} \cup
    {Bytes(b) : b \in SeqsUpTo(ByteAlphabet, MaxTextLen)}
PathValues == {Text(<<"a">>), Bytes(<<98, 255>>)}
LineNumbers == {None} \cup {Some(n) : n \in 1..MaxLineNumber}
MatchRecords ==
    {MatchItem(p, l, n) : p \in PathValues, l \in TextValues, n \in LineNumbers}

InitDecode ==
    /\ query = One(Str_TODO, <<>>)
    /\ path = One(Str_TmpProj, <<>>)
    /\ options = One(DefaultOptions, DefaultOptions)
    /\ child \in {One(c, NoChild) :
                     c \in FewChildren \cup
                           {Spawned(<<OkLine(m)>>, WaitOk(Some(0), <<>>)) :
                                m \in MatchRecords}}
    /\ Entered

\* the invocations enumerated for the records that are not matches: stdout
\* scripts over one match record, the four other record kinds and a line
\* that does not parse, without read failure
SkipLines ==
    {OkLine(Match1), OkLine(ParseError)} \cup
    {OkLine(OtherItem(t)) : t \in {"begin", "end", "context", "summary"}}
SkipExits == {WaitOk(Some(0), <<>>), WaitOk(Some(2), <<98, 10>>), WaitErr}

InitSkip ==
    /\ query = One(Str_TODO, <<>>)
    /\ path = One(Str_TmpProj, <<>>)
    /\ options = One(DefaultOptions, DefaultOptions)
    /\ child \in {One(c, NoChild) :
                     c \in FewChildren \cup
                           {Spawned(out, ex) : out \in SeqsUpTo(SkipLines, MaxLines),
                                               ex \in SkipExits}}
    /\ Entered

\* the invocations enumerated for the pipes: children that write up to one
\* chunk more than the stderr pipe holds before they write stdout
InitPipes ==
    /\ query = One(Str_TODO, <<>>)
    /\ path = One(Str_TmpProj, <<>>)
    /\ options = One(DefaultOptions, DefaultOptions)
    /\ child \in {One(c, NoChild) :
                     c \in FewChildren \cup
                           {Noisy(out, ex, n) :
                                out \in SeqsUpTo({OkLine(Match1), ErrLine}, MaxLines),
                                ex \in SkipExits,
                                n \in 0..(PipeCapacity + 1)}}
    /\ Entered

\* the children of the searches MyApp starts
AppChildren ==
    {[spawn |-> "NotFound"],
     Spawned(<<OkLine(Match1), OkLine(OtherItem("begin")), OkLine(Match2)>>,
             WaitOk(Some(0), <<>>)),
     Spawned(<<OkLine(Match2), ErrLine, OkLine(Match1)>>, WaitOk(Some(0), <<>>)),
     Spawned(<<OkLine(Match1)>>, WaitOk(Some(2), <<98, 10>>))}

\* MyApp before the first search, no worker thread yet
InitApp ==
    /\ query = [w \in Workers |-> <<>>]
    /\ path = [w \in Workers |-> <<>>]
    /\ options = [w \in Workers |-> DefaultOptions]
    /\ child = [w \in Workers |-> NoChild]
    /\ cmd_args = [w \in Workers |-> <<>>]
    /\ pc = [w \in Workers |-> "none"]
    /\ pos = [w \in Workers |-> 0]
    /\ err_written = [w \in Workers |-> 0]
    /\ chan = [c \in Workers |-> <<>>]
    /\ rx_open = [c \in Workers |-> FALSE]
    /\ sends = [w \in Workers |-> <<>>]
    /\ received = [c \in Workers |-> <<>>]
    /\ AppDefault

(***************************************************************************)
(* run_ripgrep on worker thread w, one action per step.                    *)
(***************************************************************************)
\* the child has got as far as writing its stdout: all it writes to stderr
\* before is in the stderr pipe
StdoutReady(w) == err_written[w] = ErrChunks(child[w])

\* lines 148-186, spawn Ok: the argument list is built, the child spawned;
\* then either the read loop is entered or, without a stdout handle, an
\* Error is sent and the loop skipped (lines 219-221)
SpawnOk(w) ==
    /\ pc[w] = "start"
    /\ child[w].spawn = "Ok"
    /\ cmd_args' = [cmd_args EXCEPT ![w] = BuildArgs(query[w], path[w], options[w])]
    /\ IF child[w].stdout_captured
       THEN /\ pc' = [pc EXCEPT ![w] = "reading"]
            /\ UNCHANGED <<chan, sends>>
       ELSE /\ Send(w, ErrorEvent([text |-> "Failed to capture rg stdout."]))
            /\ pc' = [pc EXCEPT ![w] = "waiting"]
    /\ UNCHANGED <<query, path, options, child, pos, err_written, rx_open,
                   received, app_vars>>

\* mutant of SpawnErr: Done is sent after the Error (the statement commented
\* out at line 256)
SpawnErr_AlsoDone(w) ==
    /\ pc[w] = "start"
    /\ child[w].spawn # "Ok"
    /\ cmd_args' = [cmd_args EXCEPT ![w] = BuildArgs(query[w], path[w], options[w])]
    /\ LET ev == ErrorEvent([text |-> "Failed to spawn rg process: ",
                             e |-> child[w].spawn])
           ok == rx_open[ChanOf(w)]
       IN  /\ chan' = [chan EXCEPT ![ChanOf(w)] =
                          IF ok THEN @ \o <<ev, DoneEvent>> ELSE @]
           /\ sends' = [sends EXCEPT ![w] =
                           @ \o <<[ev |-> ev, ok |-> ok],
                                  [ev |-> DoneEvent, ok |-> ok]>>]
    /\ pc' = [pc EXCEPT ![w] = "returned"]
    /\ UNCHANGED <<query, path, options, child, pos, err_written, rx_open,
                   received, app_vars>>

\* mutant of SpawnErr: the function returns without sending anything
SpawnErr_Silent(w) ==
    /\ pc[w] = "start"
    /\ child[w].spawn # "Ok"
    /\ cmd_args' = [cmd_args EXCEPT ![w] = BuildArgs(query[w], path[w], options[w])]
    /\ pc' = [pc EXCEPT ![w] = "returned"]
    /\ UNCHANGED <<query, path, options, child, pos, err_written, chan, rx_open,
                   sends, received, app_vars>>

\* lines 148-181 and 247-257, spawn Err: one Error is sent and the function returns
SpawnErr(w) ==
    /\ pc[w] = "start"
    /\ child[w].spawn # "Ok"
    /\ cmd_args' = [cmd_args EXCEPT ![w] = BuildArgs(query[w], path[w], options[w])]
    /\ Send(w, IF child[w].spawn = "NotFound"
               THEN ErrorEvent([text |-> "Error: 'rg' command not found. Please ensure ripgrep is installed and in your PATH."])
               ELSE ErrorEvent([text |-> "Failed to spawn rg process: ",
                                e |-> child[w].spawn]))
    /\ pc' = [pc EXCEPT ![w] = "returned"]
    /\ UNCHANGED <<query, path, options, child, pos, err_written, rx_open,
                   received, app_vars>>

\* whether the last call of sender.send by w, after this step, was Ok
LastSendOk(w) == sends'[w][Len(sends'[w])].ok

\* mutant of ReadMatch: a match record without line number is dropped
ReadMatch_SkipsUnnumbered(w) ==
    /\ pc[w] = "reading"
    /\ StdoutReady(w)
    /\ pos[w] < Len(child[w].stdout)
    /\ LET line_result == child[w].stdout[pos[w] + 1]
       IN  /\ line_result.io = "Ok"
           /\ line_result.item.type = "match"
           /\ IF line_result.item.line_number.some
              THEN Send(w, MatchEvent(MakeGuiMatch(line_result.item)))
              ELSE UNCHANGED <<chan, sends>>
    /\ pos' = [pos EXCEPT ![w] = @ + 1]
    /\ pc' = [pc EXCEPT ![w] = IF sends' = sends \/ LastSendOk(w)
                               THEN "reading" ELSE "waiting"]
    /\ UNCHANGED <<query, path, options, child, cmd_args, err_written, rx_open,
                   received, app_vars>>

\* mutant of ReadMatch: a failed send does not leave the loop
ReadMatch_NoBreak(w) ==
    /\ pc[w] = "reading"
    /\ StdoutReady(w)
    /\ pos[w] < Len(child[w].stdout)
    /\ LET line_result == child[w].stdout[pos[w] + 1]
       IN  /\ line_result.io = "Ok"
           /\ line_result.item.type = "match"
           /\ Send(w, MatchEvent(MakeGuiMatch(line_result.item)))
    /\ pos' = [pos EXCEPT ![w] = @ + 1]
    /\ UNCHANGED <<query, path, options, child, cmd_args, pc, err_written,
                   rx_open, received, app_vars>>

\* lines 187-202: a line that decodes as a match record; a failed send breaks
ReadMatch(w) ==
    /\ pc[w] = "reading"
    /\ StdoutReady(w)
    /\ pos[w] < Len(child[w].stdout)
    /\ LET line_result == child[w].stdout[pos[w] + 1]
       IN  /\ line_result.io = "Ok"
           /\ line_result.item.type = "match"
           /\ Send(w, MatchEvent(MakeGuiMatch(line_result.item)))
    /\ pos' = [pos EXCEPT ![w] = @ + 1]
    /\ pc' = [pc EXCEPT ![w] = IF LastSendOk(w) THEN "reading" ELSE "waiting"]
    /\ UNCHANGED <<query, path, options, child, cmd_args, err_written, rx_open,
                   received, app_vars>>

\* mutant of ReadOther: a line that does not parse is reported as an Error
\* and ends the loop (cf. the statement commented out at line 209)
ReadOther_ParseErrorFatal(w) ==
    /\ pc[w] = "reading"
    /\ StdoutReady(w)
    /\ pos[w] < Len(child[w].stdout)
    /\ LET line_result == child[w].stdout[pos[w] + 1]
       IN  /\ line_result.io = "Ok"
           /\ line_result.item.type # "match"
           /\ IF line_result.item.type = "parse_error"
              THEN /\ Send(w, ErrorEvent([text |-> "JSON parse error: ",
                                          e |-> "parse_error"]))
                   /\ pc' = [pc EXCEPT ![w] = "waiting"]
              ELSE UNCHANGED <<pc, chan, sends>>
    /\ pos' = [pos EXCEPT ![w] = @ + 1]
    /\ UNCHANGED <<query, path, options, child, cmd_args, err_written, rx_open,
                   received, app_vars>>

\* lines 203-211: any other record, or a line that does not parse: nothing is sent
ReadOther(w) ==
    /\ pc[w] = "reading"
    /\ StdoutReady(w)
    /\ pos[w] < Len(child[w].stdout)
    /\ LET line_result == child[w].stdout[pos[w] + 1]
       IN  /\ line_result.io = "Ok"
           /\ line_result.item.type # "match"
    /\ pos' = [pos EXCEPT ![w] = @ + 1]
    /\ UNCHANGED <<query, path, options, child, cmd_args, pc, err_written, chan,
                   rx_open, sends, received, app_vars>>

\* mutant of ReadErr: the loop goes on after the Error
ReadErr_NoBreak(w) ==
    /\ pc[w] = "reading"
    /\ StdoutReady(w)
    /\ pos[w] < Len(child[w].stdout)
    /\ LET line_result == child[w].stdout[pos[w] + 1]
       IN  /\ line_result.io = "Err"
           /\ Send(w, ErrorEvent([text |-> "Error reading rg output: ",
                                  e |-> line_result.e]))
    /\ pos' = [pos EXCEPT ![w] = @ + 1]
    /\ UNCHANGED <<query, path, options, child, cmd_args, pc, err_written,
                   rx_open, received, app_vars>>

\* lines 213-216: reading a line failed: an Error is sent and the loop left
ReadErr(w) ==
    /\ pc[w] = "reading"
    /\ StdoutReady(w)
    /\ pos[w] < Len(child[w].stdout)
    /\ LET line_result == child[w].stdout[pos[w] + 1]
       IN  /\ line_result.io = "Err"
           /\ Send(w, ErrorEvent([text |-> "Error reading rg output: ",
                                  e |-> line_result.e]))
    /\ pos' = [pos EXCEPT ![w] = @ + 1]
    /\ pc' = [pc EXCEPT ![w] = "waiting"]
    /\ UNCHANGED <<query, path, options, child, cmd_args, err_written, rx_open,
                   received, app_vars>>

\* line 187: reader.lines() is exhausted: the child has closed its stdout
ReadEof(w) ==
    /\ pc[w] = "reading"
    /\ StdoutReady(w)
    /\ pos[w] = Len(child[w].stdout)
    /\ pc' = [pc EXCEPT ![w] = "waiting"]
    /\ UNCHANGED <<query, path, options, child, cmd_args, pos, err_written, chan,
                   rx_open, sends, received, app_vars>>

\* ExitStatus::success
Success(code) == code = Some(0)

\* mutant of ExitEvent: Done whenever waiting succeeded, whatever the status
ExitEvent_DoneOnAnyExit(exit) ==
    IF exit.wait = "Err"
    THEN ErrorEvent([text |-> "Failed to wait for rg process: ", e |-> exit.e])
    ELSE DoneEvent

\* mutant of ExitEvent: the captured stderr is not trimmed
ExitEvent_NoTrim(exit) ==
    IF exit.wait = "Err"
    THEN ErrorEvent([text |-> "Failed to wait for rg process: ", e |-> exit.e])
    ELSE IF ~Success(exit.code)
         THEN LET stderr == FromUtf8Lossy(exit.stderr)
              IN  IF stderr # <<>>
                  THEN ErrorEvent([text |-> "rg exited with error: ",
                                   stderr |-> stderr])
                  ELSE IF exit.code.some
                       THEN ErrorEvent([text |-> "rg exited with status: ",
                                        status |-> exit.code])
                       ELSE ErrorEvent([text |-> "rg exited with non-zero status."])
         ELSE DoneEvent

\* lines 224-244: the event the outcome of wait_with_output is mapped to
ExitEvent(exit) ==
    IF exit.wait = "Err"
    THEN ErrorEvent([text |-> "Failed to wait for rg process: ", e |-> exit.e])
    ELSE IF ~Success(exit.code)
         THEN LET stderr == FromUtf8Lossy(exit.stderr)
              IN  IF stderr # <<>>
                  THEN ErrorEvent([text |-> "rg exited with error: ",
                                   stderr |-> Trim(stderr)])
                  ELSE IF exit.code.some
                       THEN ErrorEvent([text |-> "rg exited with status: ",
                                        status |-> exit.code])
                       ELSE ErrorEvent([text |-> "rg exited with non-zero status."])
         ELSE DoneEvent

\* lines 223-246: wait_with_output reads the child's stderr to its end and
\* waits for the child; the event of the outcome is sent, the function returns
Wait(w) ==
    /\ pc[w] = "waiting"
    /\ StdoutReady(w)
    /\ Send(w, ExitEvent(child[w].exit))
    /\ pc' = [pc EXCEPT ![w] = "returned"]
    /\ UNCHANGED <<query, path, options, child, cmd_args, pos, err_written,
                   rx_open, received, app_vars>>

Worker(w) ==
    \/ SpawnOk(w) \/ SpawnErr(w)
    \/ ReadMatch(w) \/ ReadOther(w) \/ ReadErr(w) \/ ReadEof(w)
    \/ Wait(w)

(***************************************************************************)
(* The rg child of worker w and its stderr pipe (stderr(Stdio::piped()),   *)
(* line 180).  Nothing reads the pipe before wait_with_output does.        *)
(***************************************************************************)
\* the child writes a chunk to stderr: there is room in the pipe, or
\* wait_with_output is reading it
ChildWriteErr(w) ==
    /\ pc[w] \in {"reading", "waiting"}
    /\ err_written[w] < ErrChunks(child[w])
    /\ err_written[w] < PipeCapacity \/ pc[w] = "waiting"
    /\ err_written' = [err_written EXCEPT ![w] = @ + 1]
    /\ UNCHANGED <<query, path, options, child, cmd_args, pc, pos, chan, rx_open,
                   sends, received, app_vars>>

(***************************************************************************)
(* A consumer holding the Receiver of channel c.                           *)
(***************************************************************************)
\* Receiver::try_recv returning Ok(event)
Recv(c) ==
    /\ rx_open[c]
    /\ chan[c] # <<>>
    /\ received' = [received EXCEPT ![c] = Append(@, Head(chan[c]))]
    /\ chan' = [chan EXCEPT ![c] = Tail(@)]
    /\ UNCHANGED <<query, path, options, child, cmd_args, pc, pos, err_written,
                   rx_open, sends, app_vars>>

\* the Receiver is dropped: the channel disconnects, what it buffered is discarded
DropReceiver(c) ==
    /\ rx_open[c]
    /\ rx_open' = [rx_open EXCEPT ![c] = FALSE]
    /\ chan' = [chan EXCEPT ![c] = <<>>]
    /\ UNCHANGED <<query, path, options, child, cmd_args, pc, pos, err_written,
                   sends, received, app_vars>>

Next ==
    \E w \in Workers : Worker(w) \/ Recv(w) \/ DropReceiver(w)

Spec == Init /\ [][Next]_vars

\* the same invocation over the inputs of InitArgs, InitDecode and InitSkip
SpecArgs == InitArgs /\ [][Next]_vars
SpecDecode == InitDecode /\ [][Next]_vars
SpecSkip == InitSkip /\ [][Next]_vars

\* the worker thread keeps running: its reads end (the child writes or closes
\* stdout) and the child it waits for exits
FairSpec == Spec /\ \A w \in Workers : WF_vars(Worker(w))

\* the invocation together with its child writing to the stderr pipe
NextPipes ==
    \E w \in Workers : Worker(w) \/ ChildWriteErr(w) \/ Recv(w) \/ DropReceiver(w)

SpecPipes == InitPipes /\ [][NextPipes]_vars

(***************************************************************************)
(* MyApp::update, one call per frame.                                      *)
(***************************************************************************)
\* the worker threads that hold a Sender of channel c
Senders(c) == {w \in Workers : ChanOf(w) = c /\ pc[w] \notin {"none", "returned"}}

\* crossbeam_channel::Receiver::try_recv: the oldest message; else Empty
\* while a Sender lives, Disconnected when every Sender is dropped
TryRecv(c) ==
    IF chan[c] # <<>> THEN [ok |-> TRUE, v |-> Head(chan[c])]
    ELSE [ok |-> FALSE,
          e |-> IF Senders(c) = {} THEN "Disconnected" ELSE "Empty"]

\* mutant of Push: the new element replaces the vector
Push_Replace(v, x) == <<x>>

\* mutant of Push: the new element is put in front
Push_Front(v, x) == <<x>> \o v

\* Vec::push
Push(v, x) == Append(v, x)

\* mutant of ReceiverAfter: Done leaves the receiver in place
ReceiverAfter_KeepOnDone(ev, rx) == IF ev.type = "Error" THEN None ELSE rx

\* search_result_receiver after the event ev is handled: Done and Error
\* clear it (lines 54 and 59)
ReceiverAfter(ev, rx) == IF IsTerminal(ev) THEN None ELSE rx

\* the state of MyApp when no channel is polled
NoPoll ==
    [results |-> results, error_message |-> error_message,
     search_status |-> search_status, receiver |-> search_result_receiver,
     taken |-> FALSE, polled |-> 0]

\* lines 45-73: the state of MyApp after the poll at the head of update()
Poll ==
    IF ~search_result_receiver.some THEN NoPoll
    ELSE
      LET rx == search_result_receiver
          r == TryRecv(rx.v)
      IN  IF r.ok
          THEN CASE r.v.type = "Match" ->
                      LET pushed == Push(results, r.v.m)
                      IN  [NoPoll EXCEPT
                             !.results = pushed,
                             !.search_status = [text |-> "Found {} results...",
                                                n |-> Len(pushed)],
                             !.receiver = ReceiverAfter(r.v, rx),
                             !.taken = TRUE, !.polled = 1]
                 [] r.v.type = "Done" ->
                      [NoPoll EXCEPT
                         !.search_status =
                             [text |-> "Search finished. Found {} results.",
                              n |-> Len(results)],
                         !.receiver = ReceiverAfter(r.v, rx),
                         !.taken = TRUE, !.polled = 1]
                 [] r.v.type = "Error" ->
                      [NoPoll EXCEPT
                         !.error_message = Some(r.v.msg),
                         !.search_status = [text |-> "Search failed: {}",
                                            e |-> r.v.msg],
                         !.receiver = ReceiverAfter(r.v, rx),
                         !.taken = TRUE, !.polled = 1]
          ELSE IF r.e = "Empty"
          THEN [NoPoll EXCEPT
                  !.search_status = [text |-> "Searching... Found {} results.",
                                     n |-> Len(results)],
                  !.polled = 1]
          ELSE [NoPoll EXCEPT
                  !.error_message =
                      Some([text |-> "Search thread disconnected unexpectedly."]),
                  !.search_status = [text |-> "Error: Search thread disconnected."],
                  !.receiver = None,
                  !.polled = 1]

\* mutant of ButtonActs: the handler runs on every click
ButtonActs_Always(clicked, rx) == clicked

\* line 111: the condition of the Search button's handler
ButtonActs(clicked, rx) == clicked /\ ~rx.some

\* mutant of RepaintWanted: a repaint is requested in every frame
RepaintWanted_Always(rx) == TRUE

\* line 160: the condition of ctx.request_repaint()
RepaintWanted(rx) == rx.some

\* the searches not started yet, and the one a click starts
FreeWorkers == {w \in Workers : pc[w] = "none"}
NextSearch == CHOOSE w \in FreeWorkers : \A v \in FreeWorkers : w <= v

\* what the user has typed into the query and path fields
TypedQuery == Str_TODO
TypedPath == Str_Dot

\* the whole of update(): the poll (lines 45-73), the Search button (lines
\* 111-132) and the repaint request (lines 160-162).  `clicked` is whether
\* the button reports a click in this frame, `ch` the child the spawned
\* thread will meet.
Update(clicked, ch) ==
    LET p == Poll
        rx == search_result_receiver
        starts == ButtonActs(clicked, p.receiver)
        \* the channel after the poll: a message taken, the receiver dropped
        chan1 == IF p.taken THEN [chan EXCEPT ![rx.v] = Tail(@)] ELSE chan
        dropped == rx.some /\ ~p.receiver.some
        chan2 == IF dropped THEN [chan1 EXCEPT ![rx.v] = <<>>] ELSE chan1
        open2 == IF dropped THEN [rx_open EXCEPT ![rx.v] = FALSE] ELSE rx_open
    IN  /\ starts => FreeWorkers # {}
        /\ received' = IF p.taken
                       THEN [received EXCEPT ![rx.v] = Append(@, Head(chan[rx.v]))]
                       ELSE received
        /\ polled' = p.polled
        /\ click' = clicked
        /\ IF starts
           THEN LET n == NextSearch
                IN  /\ results' = <<>>
                    /\ error_message' = None
                    /\ search_status' = [text |-> "Starting search..."]
                    /\ search_result_receiver' = Some(ChanOf(n))
                    /\ chan' = [chan2 EXCEPT ![ChanOf(n)] = <<>>]
                    /\ rx_open' = [open2 EXCEPT ![ChanOf(n)] = TRUE]
                    /\ query' = [query EXCEPT ![n] = TypedQuery]
                    /\ path' = [path EXCEPT ![n] = TypedPath]
                    /\ options' = [options EXCEPT ![n] = DefaultOptions]
                    /\ child' = [child EXCEPT ![n] = ch]
                    /\ pc' = [pc EXCEPT ![n] = "start"]
           ELSE /\ results' = p.results
                /\ error_message' = p.error_message
                /\ search_status' = p.search_status
                /\ search_result_receiver' = p.receiver
                /\ chan' = chan2
                /\ rx_open' = open2
                /\ UNCHANGED <<query, path, options, child, pc>>
        /\ repaint' = RepaintWanted(search_result_receiver')
        /\ UNCHANGED <<cmd_args, pos, err_written, sends>>

\* a frame with no search outstanding
UpdateIdle ==
    /\ ~search_result_receiver.some
    /\ \E clicked \in BOOLEAN, ch \in AppChildren : Update(clicked, ch)

\* a frame whose poll takes a Match
UpdateMatch ==
    /\ search_result_receiver.some
    /\ TryRecv(search_result_receiver.v).ok
    /\ TryRecv(search_result_receiver.v).v.type = "Match"
    /\ \E clicked \in BOOLEAN, ch \in AppChildren : Update(clicked, ch)

\* a frame whose poll takes Done
UpdateDone ==
    /\ search_result_receiver.some
    /\ TryRecv(search_result_receiver.v).ok
    /\ TryRecv(search_result_receiver.v).v.type = "Done"
    /\ \E clicked \in BOOLEAN, ch \in AppChildren : Update(clicked, ch)

\* a frame whose poll takes an Error
UpdateError ==
    /\ search_result_receiver.some
    /\ TryRecv(search_result_receiver.v).ok
    /\ TryRecv(search_result_receiver.v).v.type = "Error"
    /\ \E clicked \in BOOLEAN, ch \in AppChildren : Update(clicked, ch)

\* a frame whose poll finds no message (Err(Empty) or Err(Disconnected))
UpdateNoMessage ==
    /\ search_result_receiver.some
    /\ ~TryRecv(search_result_receiver.v).ok
    /\ \E clicked \in BOOLEAN, ch \in AppChildren : Update(clicked, ch)

Frame == UpdateIdle \/ UpdateMatch \/ UpdateDone \/ UpdateError \/ UpdateNoMessage

NextApp ==
    \/ \E w \in Workers : Worker(w)
    \/ Frame

\* the application: MyApp, its frames, and the threads its searches spawn
AppSpec == InitApp /\ [][NextApp]_vars

\* every worker thread keeps running, and frames keep occurring
AppFairSpec ==
    AppSpec /\ (\A w \in Workers : WF_vars(Worker(w))) /\ WF_vars(Frame)

(***************************************************************************)
(* Properties of one invocation.                                           *)
(***************************************************************************)
\* the events handed to sender.send, in call order
SentEvents == [i \in 1..Len(sends[1]) |-> sends[1][i].ev]

\* the events the channel accepted, in order
AcceptedEvents ==
    LET acc == SelectSeq(sends[1], LAMBDA c : c.ok)
    IN  [i \in 1..Len(acc) |-> acc[i].ev]

Terminals(events) == SelectSeq(events, IsTerminal)
Matches(events) == SelectSeq(events, LAMBDA ev : ev.type = "Match")

IsMatchLine(line_result) ==
    line_result.io = "Ok" /\ line_result.item.type = "match"

\* the stdout script has no read failure in it
CleanStdout == \A i \in 1..Len(child[1].stdout) : child[1].stdout[i].io = "Ok"

\* C1: on every path of an invocation the channel gets at most one terminal
\* event (Error or Done); after a read failure has sent Error, no second
\* Error and no Done follows.
C1_AtMostOneTerminal == Len(Terminals(AcceptedEvents)) <= 1

\* C2: with the receiver kept open, an invocation that has returned sent
\* exactly one terminal event in the scenarios (a) success exit after match
\* lines, (b) success exit without match line, (c) non-success exit with
\* stderr, (d) non-success exit without stderr, (e) rg cannot be spawned; it
\* is Done in (a) and (b) and Error in (c), (d), (e).
C2_ExactlyOneTerminal ==
    (/\ pc[1] = "returned"
     /\ rx_open[1]
     /\ \/ child[1].spawn # "Ok"
        \/ child[1].spawn = "Ok" /\ CleanStdout /\ child[1].exit.wait = "Ok")
    => LET t == Terminals(AcceptedEvents)
       IN  /\ Len(t) = 1
           /\ t[1].type = IF child[1].spawn = "Ok" /\ child[1].exit.code = Some(0)
                          THEN "Done" ELSE "Error"

\* scenario (a) has run: two match lines, success exit, everything received
C2_Witness ==
    /\ pc[1] = "returned"
    /\ rx_open[1]
    /\ child[1].spawn = "Ok" /\ CleanStdout
    /\ child[1].exit.wait = "Ok" /\ child[1].exit.code = Some(0)
    /\ Len(received[1]) = 3
    /\ received[1][1].type = "Match" /\ received[1][2].type = "Match"
    /\ received[1][3].type = "Done"

\* C3: among the events one invocation sends, no Match comes after an Error
\* or a Done, and the last event sent is an Error or a Done.
C3_NoMatchAfterTerminal ==
    /\ \A i \in 1..Len(sends[1]) : \A j \in (i + 1)..Len(sends[1]) :
           IsTerminal(sends[1][i].ev) => sends[1][j].ev.type # "Match"
    /\ pc[1] = "returned" => sends[1] # <<>> /\ IsTerminal(sends[1][Len(sends[1])].ev)

\* a Match, then the Error of a read failure with lines left unread, then the
\* event of the exit status
C3_Witness ==
    /\ pc[1] = "returned"
    /\ Len(sends[1]) = 3
    /\ sends[1][1].ev.type = "Match"
    /\ sends[1][2].ev.type = "Error"
    /\ pos[1] < Len(child[1].stdout)
    /\ IsMatchLine(child[1].stdout[pos[1] + 1])

\* C4: the Match events sent are, in order, without duplicate or omission,
\* the projections of the match records among the lines read so far: the
\* k-th Match event is the projection of the k-th match line read.  The
\* channel accepted a prefix of them, and the consumer received a prefix of that.
C4_MatchesInLineOrder ==
    child[1].spawn = "Ok" =>
        LET lines_read == SelectSeq(SubSeq(child[1].stdout, 1, pos[1]), IsMatchLine)
            IsPrefix(a, b) == Len(a) <= Len(b) /\ a = SubSeq(b, 1, Len(a))
        IN  /\ Matches(SentEvents) =
                   [k \in 1..Len(lines_read) |->
                       MatchEvent(MakeGuiMatch(lines_read[k].item))]
            /\ IsPrefix(Matches(AcceptedEvents), Matches(SentEvents))
            /\ IsPrefix(Matches(received[1]), Matches(AcceptedEvents))

\* two different match records, a record of another kind before the second,
\* both projections received in line order
C4_Witness ==
    /\ pc[1] = "returned"
    /\ child[1].spawn = "Ok"
    /\ child[1].stdout = <<OkLine(Match2), OkLine(OtherItem("begin")), OkLine(Match1)>>
    /\ Matches(received[1]) = <<MatchEvent(MakeGuiMatch(Match2)),
                             MatchEvent(MakeGuiMatch(Match1))>>

\* C5: when spawning rg fails, run_ripgrep sends exactly one event, an Error,
\* and returns: no Match, no Done, no second Error, and no output is read.
C5_SpawnFailureOneError ==
    (child[1].spawn # "Ok" /\ pc[1] # "start")
    => /\ pc[1] = "returned"
       /\ Len(sends[1]) = 1
       /\ sends[1][1].ev.type = "Error"
       /\ pos[1] = 0

\* rg is not found: the consumer has received the one Error, nothing is buffered
C5_Witness ==
    /\ child[1].spawn = "NotFound"
    /\ pc[1] = "returned"
    /\ chan[1] = <<>>
    /\ Len(received[1]) = 1
    /\ received[1][1].type = "Error"

\* some call of sender.send has failed: the consumer is gone
SendFailed == \E i \in 1..Len(sends[1]) : ~sends[1][i].ok

\* C6: once a send has failed because the receiver was dropped, run_ripgrep
\* reads no further stdout line and no further event reaches the channel or
\* a consumer; the worker then returns (it has no failing path: every later
\* send ignores its result), however many Match events were delivered before.
C6_StopsAfterFailedSend ==
    /\ [][SendFailed => /\ pos'[1] = pos[1]
                        /\ chan'[1] = chan[1]
                        /\ received'[1] = received[1]
                        /\ pc'[1] \in {"waiting", "returned"}]_vars
    /\ SendFailed ~> (pc[1] = "returned")

\* a Match was delivered, the receiver dropped, the next Match refused with
\* output left unread, and the worker has returned
C6_Witness ==
    /\ child[1].spawn = "Ok"
    /\ SendFailed
    /\ pc[1] = "returned"
    /\ pos[1] < Len(child[1].stdout)
    /\ Len(received[1]) >= 1
    /\ received[1][1].type = "Match"

\* C7: the step that waits for the child sends exactly one event: Done for a
\* success exit; for a non-success exit an Error carrying the trimmed stderr
\* text when stderr is not empty and the exit status otherwise (the status
\* itself when there is an exit code, the fixed "non-zero status" text when
\* there is none); for a failed wait an Error with that failure's detail.
C7_ExitStatusMapping ==
    [][(pc[1] = "waiting" /\ pc'[1] = "returned") =>
        /\ Len(sends'[1]) = Len(sends[1]) + 1
        /\ LET ev == sends'[1][Len(sends'[1])].ev
               exit == child[1].exit
               stderr == FromUtf8Lossy(exit.stderr)
           IN  /\ exit.wait = "Err" =>
                      ev.type = "Error" /\ ev.msg.e = exit.e
               /\ (exit.wait = "Ok" /\ exit.code = Some(0)) => ev.type = "Done"
               /\ (exit.wait = "Ok" /\ exit.code # Some(0)) =>
                      /\ ev.type = "Error"
                      /\ stderr # <<>> =>
                             /\ DOMAIN ev.msg = {"text", "stderr"}
                             /\ \E i, j \in 0..Len(stderr) :
                                    /\ ev.msg.stderr = SubSeq(stderr, i + 1, j)
                                    /\ \A k \in (1..i) \cup ((j + 1)..Len(stderr)) :
                                           stderr[k] \in Whitespace
                             /\ ev.msg.stderr # <<>> =>
                                    /\ ev.msg.stderr[1] \notin Whitespace
                                    /\ ev.msg.stderr[Len(ev.msg.stderr)] \notin Whitespace
                      /\ stderr = <<>> =>
                             IF exit.code.some
                             THEN ev.msg = [text |-> "rg exited with status: ",
                                            status |-> exit.code]
                             ELSE ev.msg = [text |-> "rg exited with non-zero status."]
       ]_vars

\* the child exited with a failure status and "b\n" on stderr: the Error
\* received carries "b"
C7_Witness ==
    /\ pc[1] = "returned"
    /\ child[1].spawn = "Ok"
    /\ child[1].exit = WaitOk(Some(2), <<98, 10>>)
    /\ received[1] # <<>>
    /\ received[1][Len(received[1])] =
           ErrorEvent([text |-> "rg exited with error: ", stderr |-> <<"b">>])

(***************************************************************************)
(* Properties of the argument list and of the decoding.                    *)
(***************************************************************************)
\* a piece of text without its leading and trailing whitespace, by positions
Stripped(piece) ==
    LET keep == {i \in 1..Len(piece) : piece[i] \notin Whitespace}
    IN  IF keep = {} THEN <<>>
        ELSE SubSeq(piece,
                    CHOOSE i \in keep : \A j \in keep : i <= j,
                    CHOOSE i \in keep : \A j \in keep : j <= i)

\* the -g flags a glob text stands for: the text is cut at every ',' and
\* ';'; each piece that is not empty once stripped gives "-g" and the
\* stripped piece, in the order of the pieces
ExpectedGlobFlags(g) ==
    LET cuts == {0, Len(g) + 1} \cup {i \in 1..Len(g) : g[i] \in {",", ";"}}
        token(a) == LET b == CHOOSE c \in cuts :
                                 c > a /\ \A d \in cuts : d > a => c <= d
                    IN  Stripped(SubSeq(g, a + 1, b - 1))
        starts == {a \in cuts : a <= Len(g) /\ token(a) # <<>>}
        nth(k) == CHOOSE a \in starts : Cardinality({x \in starts : x <= a}) = k
    IN  [i \in 1..(2 * Cardinality(starts)) |->
            IF i % 2 = 1 THEN <<"-", "g">> ELSE token(nth(i \div 2))]

\* C8: the argument list is ["--json", query, rootPath], then "-i" if
\* case_insensitive, then "--hidden" if search_hidden, then "-L" if
\* follow_symlinks, then the glob flags; with every option off and no globs
\* it is ["--json", query, rootPath].
C8_ArgumentList ==
    pc[1] # "start" =>
        /\ cmd_args[1] =
               <<<<"-", "-", "j", "s", "o", "n">>, query[1], path[1]>>
               \o (IF options[1].case_insensitive THEN << <<"-", "i">> >> ELSE <<>>)
               \o (IF options[1].search_hidden
                   THEN << <<"-", "-", "h", "i", "d", "d", "e", "n">> >> ELSE <<>>)
               \o (IF options[1].follow_symlinks THEN << <<"-", "L">> >> ELSE <<>>)
               \o (IF options[1].globs.some THEN ExpectedGlobFlags(options[1].globs.v)
                   ELSE <<>>)
        /\ options[1] = DefaultOptions =>
               cmd_args[1] = <<<<"-", "-", "j", "s", "o", "n">>, query[1], path[1]>>

\* case_insensitive and search_hidden set, no globs, query "TODO", root
\* "/tmp/proj": -i and --hidden follow the root path in that order
C8_Witness ==
    /\ pc[1] = "returned"
    /\ options[1] = [case_insensitive |-> TRUE, search_hidden |-> TRUE,
                  follow_symlinks |-> FALSE, globs |-> None]
    /\ cmd_args[1] = <<JsonFlag, Str_TODO, Str_TmpProj, CaseFlag, HiddenFlag>>

\* the arguments after the query, the path and the option flags
GlobArgs ==
    LET fixed == 3 + (IF options[1].case_insensitive THEN 1 ELSE 0)
                   + (IF options[1].search_hidden THEN 1 ELSE 0)
                   + (IF options[1].follow_symlinks THEN 1 ELSE 0)
    IN  SubSeq(cmd_args[1], fixed + 1, Len(cmd_args[1]))

\* C9: a glob text split on ',' and ';' gives one "-g" followed by the
\* trimmed token for each token not empty after trimming, in token order,
\* and nothing for an empty or whitespace-only token; "*.rs, ; *.md" gives
\* -g *.rs -g *.md.
C9_GlobFlags ==
    (pc[1] # "start" /\ options[1].globs.some) =>
        /\ GlobArgs = ExpectedGlobFlags(options[1].globs.v)
        /\ \A i \in 1..Len(GlobArgs) :
               IF i % 2 = 1 THEN GlobArgs[i] = <<"-", "g">>
               ELSE /\ GlobArgs[i] # <<>>
                    /\ GlobArgs[i][1] \notin Whitespace
                    /\ GlobArgs[i][Len(GlobArgs[i])] \notin Whitespace
                    /\ \A k \in 1..Len(GlobArgs[i]) : GlobArgs[i][k] \notin {",", ";"}
        /\ options[1].globs.v = Str_GlobSample =>
               GlobArgs = << <<"-", "g">>, <<"*", ".", "r", "s">>,
                             <<"-", "g">>, <<"*", ".", "m", "d">> >>

\* the glob text "*.rs, ; *.md" behind -i: the list ends in -g *.rs -g *.md
C9_Witness ==
    /\ pc[1] # "start"
    /\ options[1].globs = Some(Str_GlobSample)
    /\ options[1].case_insensitive
    /\ Len(cmd_args[1]) = 8
    /\ cmd_args[1][6] = <<"*", ".", "r", "s">>
    /\ cmd_args[1][8] = <<"*", ".", "m", "d">>

\* C10: the GuiMatch sent for a match record has the record's line text
\* without its trailing whitespace (so without line ending), the record's
\* path, and the record's line number when there is one and 0 exactly when
\* there is none.
C10_GuiMatchFields ==
    child[1].spawn = "Ok" =>
        LET lines_read == SelectSeq(SubSeq(child[1].stdout, 1, pos[1]), IsMatchLine)
            sent == Matches(SentEvents)
        IN  \A k \in 1..Len(sent) :
                /\ k <= Len(lines_read)
                /\ LET rec == lines_read[k].item
                       gui == sent[k].m
                       full == ToStringLossy(rec.lines)
                       n == Len(gui.line_text)
                   IN  /\ gui.path = ToStringLossy(rec.path)
                       /\ n <= Len(full)
                       /\ gui.line_text = SubSeq(full, 1, n)
                       /\ \A i \in (n + 1)..Len(full) : full[i] \in Whitespace
                       /\ n > 0 => gui.line_text[n] \notin Whitespace
                       /\ rec.line_number.some => gui.line_number = rec.line_number.v
                       /\ gui.line_number = 0 <=> ~rec.line_number.some

\* a record without line number whose line is the bytes 'a', 0xFF, '\n':
\* the consumer received line_number 0 and the text "a", U+FFFD
C10_Witness ==
    /\ child[1].spawn = "Ok"
    /\ child[1].stdout =
           <<OkLine(MatchItem(Bytes(<<98, 255>>), Bytes(<<97, 255, 10>>), None))>>
    /\ received[1] # <<>>
    /\ received[1][1] = MatchEvent([path |-> <<"b", "U+FFFD">>,
                                 line_number |-> 0,
                                 line_text |-> <<"a", "U+FFFD">>])



(***************************************************************************)
(* Properties of the stream of lines, of MyApp, and of the two together.   *)
(***************************************************************************)
SentEventsOf(w) == [i \in 1..Len(sends[w]) |-> sends[w][i].ev]

\* the GuiMatch of every match line among `lines`, in order
MatchesOfLines(lines) ==
    LET hits == SelectSeq(lines, IsMatchLine)
    IN  [i \in 1..Len(hits) |-> MatchEvent(MakeGuiMatch(hits[i].item))]

\* C11: a line that does not parse, or that is a begin, end, context or
\* summary record, produces no event and does not stop the stream: while
\* every line is read without I/O failure and no send fails, the events sent
\* are exactly the Match of each match line read so far, the loop is left
\* only at the end of the output, and the one terminal event that follows is
\* Done exactly when the child exited with success.
C11_SkippedLinesAreHarmless ==
    (child[1].spawn = "Ok" /\ CleanStdout /\ ~SendFailed) =>
        LET stdout == child[1].stdout
            events == SentEventsOf(1)
        IN  /\ Matches(events) = MatchesOfLines(SubSeq(stdout, 1, pos[1]))
            /\ pc[1] \in {"waiting", "returned"} => pos[1] = Len(stdout)
            /\ pc[1] # "returned" => Terminals(events) = <<>>
            /\ pc[1] = "returned" =>
                   /\ Len(Terminals(events)) = 1
                   /\ IsTerminal(events[Len(events)])
                   /\ events[Len(events)].type = "Done"
                          <=> (child[1].exit.wait = "Ok"
                               /\ child[1].exit.code = Some(0))

C11_Witness ==
    /\ pc[1] = "returned"
    /\ child[1].spawn = "Ok"
    /\ child[1].stdout = <<OkLine(ParseError), OkLine(OtherItem("context")),
                           OkLine(Match1)>>
    /\ received[1] = <<MatchEvent(MakeGuiMatch(Match1)), DoneEvent>>

\* a step in which the Search handler starts a search
StartsSearch == \E n \in Workers : pc[n] = "none" /\ pc'[n] = "start"

\* C12: between the starts of searches MyApp's results only grows, by one
\* element appended at the end at a time; it is emptied only by a step that
\* starts a new search.
C12_ResultsAppendOnly ==
    [][\/ results' = results
       \/ /\ Len(results') = Len(results) + 1
          /\ SubSeq(results', 1, Len(results)) = results
       \/ results' = <<>> /\ StartsSearch]_vars

C12_Witness ==
    /\ Len(Matches(received[1])) = 2
    /\ pc[2] # "none"
    /\ Len(results) = 1
    /\ Matches(received[2]) = <<MatchEvent(results[1])>>

\* the worker threads inside run_ripgrep
ActiveWorkers == {w \in Workers : pc[w] \notin {"none", "returned"}}

\* C13: at every moment at most one run_ripgrep worker thread is active: a
\* new worker is never spawned while the worker of a previous search has not
\* returned, also not while that worker waits for its child to exit after
\* having sent a terminal event.
C13_AtMostOneActiveWorker == Cardinality(ActiveWorkers) <= 1

\* the UI is idle: no search is outstanding, a new one may be started
Idle == search_result_receiver = None

\* a frame in which MyApp takes a terminal event from its channel
ConsumesTerminal ==
    /\ search_result_receiver.some
    /\ LET c == search_result_receiver.v
       IN  /\ chan[c] # <<>>
           /\ IsTerminal(Head(chan[c]))
           /\ received'[c] = Append(received[c], Head(chan[c]))

\* C14: every search MyApp starts stops being outstanding, given that the
\* worker threads keep running and frames keep occurring; the frame that
\* takes a terminal Error leaves the UI idle holding the error's message, the
\* frame that takes Done leaves it idle with no error message (unless the
\* Search button is clicked in that same frame and starts the next search).
C14_SearchReturnsToIdle ==
    /\ \A s \in Workers :
           (search_result_receiver = Some(s)) ~> (search_result_receiver # Some(s))
    /\ [][(ConsumesTerminal /\ ~click') =>
            LET ev == Head(chan[search_result_receiver.v])
            IN  /\ Idle'
                /\ error_message' = IF ev.type = "Error" THEN Some(ev.msg)
                                    ELSE None]_vars

C14_Witness ==
    /\ Idle
    /\ pc[1] = "returned" /\ pc[2] = "returned"
    /\ received[1] # <<>> /\ received[1][Len(received[1])].type = "Error"
    /\ received[2] # <<>> /\ received[2][Len(received[2])].type = "Done"
    /\ error_message = None

\* C15: MyApp never observes its channel as Disconnected while a search is
\* outstanding: whenever the receiver is in place, try_recv would give a
\* message or Empty, because a worker that has dropped its sender has left a
\* terminal event in the channel; the 'Search thread disconnected' state of
\* the UI is never entered.
C15_NeverDisconnected ==
    /\ search_result_receiver.some =>
           LET r == TryRecv(search_result_receiver.v)
           IN  r.ok \/ r.e = "Empty"
    /\ search_status # [text |-> "Error: Search thread disconnected."]
    /\ error_message # Some([text |-> "Search thread disconnected unexpectedly."])

C15_Witness ==
    /\ search_result_receiver = Some(1)
    /\ pc[1] = "returned"
    /\ Senders(1) = {}
    /\ Len(chan[1]) = 1
    /\ IsTerminal(chan[1][1])

\* C16: a click on Search in a frame in which a search is still outstanding
\* when the button is evaluated (the receiver is Some after the poll) does
\* nothing: results, error_message, search_status and the receiver are as
\* the poll left them, no channel is created and no worker thread spawned.
C16_ClickWhileSearchingIsNoOp ==
    [][(Frame /\ click' /\ Poll.receiver.some) =>
          /\ results' = Poll.results
          /\ Len(results') <= Len(results) + 1
          /\ error_message' = error_message
          /\ search_status' = Poll.search_status
          /\ search_status'.text # "Starting search..."
          /\ search_result_receiver' = search_result_receiver
          /\ UNCHANGED <<pc, child, query, path, options, rx_open, sends>>]_vars

C16_Witness ==
    /\ click
    /\ search_result_receiver = Some(1)
    /\ search_status = [text |-> "Found {} results...", n |-> 1]
    /\ Len(results) = 1
    /\ pc[2] = "none"

\* C17: in every frame MyApp polls its channel at most once, and only when a
\* search is outstanding at the start of the frame; the poll takes at most
\* one event, from that search's channel, whatever the channel buffers; a
\* repaint is requested at the end of the frame exactly when the receiver is
\* Some then.
C17_OnePollPerFrame ==
    [][Frame =>
          /\ polled' = (IF search_result_receiver.some THEN 1 ELSE 0)
          /\ \A c \in Workers :
                 \/ received'[c] = received[c]
                 \/ /\ search_result_receiver = Some(c)
                    /\ polled' = 1
                    /\ chan[c] # <<>>
                    /\ received'[c] = Append(received[c], Head(chan[c]))
          /\ repaint' <=> search_result_receiver'.some]_vars

C17_Witness ==
    /\ polled = 1
    /\ repaint
    /\ search_result_receiver = Some(1)
    /\ Len(received[1]) = 1
    /\ Len(chan[1]) = 2

\* the search started last
Started == {w \in Workers : pc[w] # "none"}
LastSearch == CHOOSE w \in Started : \A v \in Started : v <= w

\* the GuiMatch of each Match that worker w sent before its first terminal
\* event
MatchesBeforeTerminal(w) ==
    LET sent == SentEventsOf(w)
        stops == {i \in 1..Len(sent) : IsTerminal(sent[i])}
        first == IF stops = {} THEN Len(sent) + 1
                 ELSE CHOOSE i \in stops : \A j \in stops : i <= j
        before == Matches(SubSeq(sent, 1, first - 1))
    IN  [i \in 1..Len(before) |-> before[i].m]

\* C18: when MyApp takes the terminal event of a search, results is exactly
\* the sequence of the Match events the worker of that search sent before
\* that terminal event, in the order sent; this holds when the terminal
\* event is at the head of the channel and once it has been taken, and the
\* count in the 'Search finished' status is the length of that sequence.
C18_ResultsAreTheMatchesSent ==
    Started # {} =>
        LET w == LastSearch
            c == ChanOf(w)
            expected == MatchesBeforeTerminal(w)
        IN  /\ (/\ search_result_receiver = Some(c)
                /\ chan[c] # <<>>
                /\ IsTerminal(Head(chan[c])))
               => /\ results = expected
                  /\ Matches(received[c]) = [i \in 1..Len(expected) |->
                                                MatchEvent(expected[i])]
            /\ search_status.text = "Search finished. Found {} results."
               => results = expected /\ search_status.n = Len(expected)
            /\ search_status.text = "Search failed: {}"
               => results = expected

C18_Witness ==
    /\ search_status = [text |-> "Search finished. Found {} results.", n |-> 2]
    /\ results = <<MakeGuiMatch(Match1), MakeGuiMatch(Match2)>>
    /\ Idle

\* sequence a is an initial part of sequence b
PrefixOf(a, b) == Len(a) <= Len(b) /\ a = SubSeq(b, 1, Len(a))

\* the first terminal event worker w sent, as a sequence of at most one
FirstTerminal(w) == SubSeq(Terminals(SentEventsOf(w)), 1, 1)

\* C19: what the worker of an earlier search sends after the UI has cleared
\* that search's receiver reaches nothing: each search has a channel of its
\* own, the channels of earlier searches are closed and empty, every channel
\* delivered only what its own worker sent, results holds only matches sent
\* by the worker of the latest search, and an error shown is the first
\* terminal event of that worker.
C19_StaleEventsAreIgnored ==
    Started # {} =>
        LET w == LastSearch
        IN  /\ \A v \in Started \ {w} :
                   /\ ChanOf(v) # ChanOf(w)
                   /\ ~rx_open[ChanOf(v)]
                   /\ chan[ChanOf(v)] = <<>>
            /\ search_result_receiver.some => search_result_receiver.v = ChanOf(w)
            /\ \A v \in Started :
                   PrefixOf(received[ChanOf(v)], SentEventsOf(v))
            /\ PrefixOf(results, MatchesBeforeTerminal(w))
            /\ error_message.some =>
                   FirstTerminal(w) = <<ErrorEvent(error_message.v)>>
            /\ search_status.text = "Search failed: {}" =>
                   FirstTerminal(w) = <<ErrorEvent(search_status.e)>>
            /\ search_status.text = "Search finished. Found {} results." =>
                   FirstTerminal(w) = <<DoneEvent>>

C19_Witness ==
    /\ \E i \in 1..Len(sends[1]) :
           IsTerminal(sends[1][i].ev) /\ ~sends[1][i].ok
    /\ pc[1] = "returned"
    /\ search_result_receiver = Some(2)
    /\ results # <<>>

\* C20: an invocation whose child was launched always goes on to its terminal
\* event and its return, also when the child writes more standard error than
\* the pipe holds before it closes standard output: as long as it has not
\* returned, the worker or its child can take a step, so that the two never
\* wait on each other.
C20_BridgeAndChildNeverBothWait ==
    (child[1].spawn = "Ok" /\ pc[1] \in {"reading", "waiting"}) =>
        ENABLED (Worker(1) \/ ChildWriteErr(1))
====
